---- MODULE Spec2Model ----
(***************************************************************************)
(* QR Restaurant backend: the socket.io room router (connection handshake, *)
(* join_room, join_guest_room, disconnect) and the order / table           *)
(* controllers that write to the store and then emit to rooms.             *)
(*                                                                         *)
(* A handler that awaits between reading a mutable row and writing it, or  *)
(* between its write and its emit, is split at those awaits: the part up   *)
(* to the await is one action, the continuation another, and the values    *)
(* the continuation closes over travel in an `inflight` record.            *)
(***************************************************************************)
EXTENDS Naturals, Sequences, FiniteSets, TLC

\* ------------------------------------------------------------------ bounds
\* HTTP requests accepted in one behaviour while sockets are being served.
MaxOps == 1
\* HTTP requests accepted in one behaviour of the controllers alone.
MaxStoreOps == 2
\* "error" events the socket handlers may emit in one behaviour.
MaxErrors == 1
\* join_guest_room calls that may be waiting on validateTenantId at once.
MaxPendingJoins == 1

\* ------------------------------------------------------------- the store
Null == "null"

\* Rows of the tenant table (tenants are never created or deleted in scope).
Tenants == {"T1", "T2"}
\* Tenant ids a client may send: the two tenants and an id matching no row.
TenantIdInputs == Tenants \cup {"TX"}

OrderStatuses == {"PENDING", "CONFIRMED", "DONE", "CANCELLED"}
TableStatuses == {"LOCKED", "ACTIVE"}

\* Rows of the product table: an available and an unavailable product of T1
\* and an available product of T2.  "pX" is an id matching no row.
InitialProducts ==
    [p \in {"pA", "pB", "pC"} |->
        CASE p = "pA" -> [tenantId |-> "T1", name |-> "Spring Rolls", price |-> 5, isAvailable |-> TRUE,
                          categoryId |-> "kA"]
          [] p = "pB" -> [tenantId |-> "T1", name |-> "Pho Bo", price |-> 7, isAvailable |-> FALSE,
                          categoryId |-> "kA"]
          [] p = "pC" -> [tenantId |-> "T2", name |-> "Lime Soda", price |-> 3, isAvailable |-> TRUE,
                          categoryId |-> "kC"]]
ProductIdInputs == {"pA", "pB", "pC", "pX"}

\* Rows of the category table: "kA" holds the products of T1, "kB" is an empty
\* category of T1, "kC" holds the product of T2.  "kX" is an id matching no row.
InitialCategories ==
    [k \in {"kA", "kB", "kC"} |-> [tenantId |-> IF k = "kC" THEN "T2" ELSE "T1"]]
CategoryIdInputs == {"kA", "kB", "kC", "kX"}
\* A body field the client did not send.
Undefined == "undefined"

\* Request items: the client sends productId, quantity and its own price.
Item(p, q, pr) == [productId |-> p, quantity |-> q, price |-> pr]
ItemListInputs ==
    { <<>>,
      <<Item("pA", 1, 5)>>,
      <<Item("pA", 2, 1)>>,
      <<Item("pA", 1, 5), Item("pB", 1, 7)>>,
      <<Item("pA", 1, 5), Item("pC", 1, 3)>>,
      <<Item("pA", 1, 5), Item("pX", 1, 1)>>,
      <<Item("pC", 1, 3)>> }
\* Client-supplied totals; 0 is the falsy value the handlers reject.
TotalInputs == {0, 5}
TableNameInputs == {"Table 1"}

\* Rows of the table table: one table of each tenant; "tX" matches no row.
TableIds == {"tA", "tC"}
TableIdInputs == TableIds \cup {"tX"}
TableOwner(t) == IF t = "tA" THEN "T1" ELSE "T2"

\* An order a previous run of the server left in the durable store: created
\* by createOrder for T1 and moved to status s by updateOrderStatus.
PersistedOrder(s) ==
    [tenantId |-> "T1", tableName |-> "Table 1", status |-> s, total |-> 5,
     items |-> << [productName |-> "Spring Rolls", quantity |-> 1, price |-> 5] >>]

\* Order ids a client may send; ids above Len(orders) match no row.
OrderIdInputs == 1..(MaxStoreOps + 1)
StatusInputs == OrderStatuses \cup {"BOGUS"}

\* ------------------------------------------------------------ connections
Conns == {"c1", "c2"}
\* Handshake tokens: none, one failing verification, one per tenant, and a
\* well-signed token naming a tenant that has no row.
Tokens == {"", "bad", "jwt:T1", "jwt:T2", "jwt:TX"}

\* Room names.
TenantRoom(tenantId) == tenantId
GuestRoom(tenantId) == "guest:" \o tenantId
\* Target of io.emit(...): every connected socket.
AllSockets == "*"

VARIABLES
    products,      \* product table
    orders,        \* order table with its items: orders[id]
    tables,        \* table table: tables[tableId]
    conn,          \* socket.data and connection state of each socket
    rooms,         \* adapter: rooms[c] = the rooms socket c is in
    inbox,         \* events each client has received, in order
    inflight,      \* continuations waiting on an await
    emitted,       \* log of io.to(room).emit / io.emit calls
    lastResponse,  \* the HTTP response sent last
    lastRequest,   \* the HTTP request accepted last: who asked, and for which row
    nOps,          \* HTTP requests accepted so far
    nErrors,       \* "error" events emitted so far
    budget,        \* HTTP requests this behaviour may accept (never changes)
    errBudget,     \* "error" events this behaviour may emit (never changes)
    categories,    \* category table
    committed      \* log of the writes the store has committed, in commit order

vars == <<products, orders, tables, conn, rooms, inbox, inflight, emitted,
          lastResponse, lastRequest, nOps, nErrors, budget, errBudget,
          categories, committed>>

store == <<products, orders, tables, categories>>
budgets == <<budget, errBudget>>
sockets == <<conn, rooms>>

\* ------------------------------------------------------------- helpers
\* JavaScript's !x for a string and for a number.
FalsyStr(x) == x = ""
FalsyNum(x) == x = 0

Event(name, rid, tenantId, id, tableId, status) ==
    [name |-> name, rid |-> rid, tenantId |-> tenantId, id |-> id,
     tableId |-> tableId, status |-> status]

ErrorEvent(message) == Event("error", 0, "", 0, "", message)

Response(rid, op, code, error) == [rid |-> rid, op |-> op, code |-> code, error |-> error]

\* req.headers / req.body / req.params: the credential or tenant id the
\* caller sent and the order or table the request addresses.
Request(op, caller, id, tableId) == [op |-> op, caller |-> caller, id |-> id, tableId |-> tableId]

\* The sockets an emit to `room` reaches: connected sockets in the room.
Receivers(room, cn, rm) ==
    { c \in Conns : cn[c].state = "open" /\ (room = AllSockets \/ room \in rm[c]) }

\* Mutant of Deliver: the event reaches one socket of the room only.
Deliver_oneReceiver(box, room, ev) ==
    [c \in Conns |->
        IF Receivers(room, conn, rooms) # {} /\ c = CHOOSE x \in Receivers(room, conn, rooms) : TRUE
        THEN Append(box[c], ev) ELSE box[c]]

\* One io.to(room).emit(ev): ev is appended to the stream of each receiver.
Deliver(box, room, ev) ==
    [c \in Conns |-> IF c \in Receivers(room, conn, rooms) THEN Append(box[c], ev) ELSE box[c]]

\* A handler's emits, in program order; es is a sequence of <<room, ev>>.
RECURSIVE DeliverAll(_, _)
DeliverAll(box, es) ==
    IF es = <<>> THEN box
    ELSE DeliverAll(Deliver(box, Head(es)[1], Head(es)[2]), Tail(es))

\* The log entries of a handler's emits.
Logged(op, es) == [i \in 1..Len(es) |-> [op |-> op, room |-> es[i][1], ev |-> es[i][2]]]

\* A continuation record.
Cont(rid, op, phase, id, tableId, tenantId, total, amount, items, status, c) ==
    [rid |-> rid, op |-> op, phase |-> phase, id |-> id, tableId |-> tableId,
     tenantId |-> tenantId, total |-> total, amount |-> amount, items |-> items,
     status |-> status, conn |-> c]

\* The store commits the write of request rid to order id or table tableId.
Commit(rid, op, id, tableId) ==
    committed' = Append(committed, [rid |-> rid, op |-> op, id |-> id, tableId |-> tableId])

\* A behaviour carries HTTP traffic or failing joins: the two only meet in a
\* client's stream, where the error event of a join is independent of the
\* events of a request.
Scenarios == { <<MaxOps, 0>>, <<0, MaxErrors>> }

\* The state when the server starts listening, with request budgets b and e.
Start(b, e) ==
    /\ products = InitialProducts
    /\ orders = <<PersistedOrder("PENDING")>>
    /\ tables = [t \in TableIds |-> [tenantId |-> TableOwner(t), name |-> t,
                                      status |-> IF t = "tA" THEN "ACTIVE" ELSE "LOCKED"]]
    /\ conn = [c \in Conns |-> [state |-> "new", authenticated |-> FALSE,
                                isGuest |-> FALSE, tenantId |-> Null]]
    /\ rooms = [c \in Conns |-> {}]
    /\ inbox = [c \in Conns |-> <<>>]
    /\ inflight = {}
    /\ emitted = <<>>
    /\ lastResponse = Response(0, "none", 0, "")
    /\ lastRequest = Request("none", "", 0, "")
    /\ nOps = 0
    /\ nErrors = 0
    /\ budget = b
    /\ errBudget = e
    /\ categories = InitialCategories
    /\ committed = <<>>

Init == \E sc \in Scenarios : Start(sc[1], sc[2])

\* ------------------------------------------------- credential verifier
\* verifyToken: the payload's tenantId, or Null when verification fails.
verifyToken(token) ==
    CASE token = "jwt:T1" -> "T1"
      [] token = "jwt:T2" -> "T2"
      [] token = "jwt:TX" -> "TX"
      [] OTHER -> Null

\* ------------------------------------------------------ socket handlers
\* Mutant of socketAuthMiddleware: a token that fails verification is admitted
\* as a guest instead of being refused.
socketAuthMiddleware_admitInvalid(c, token) ==
    /\ conn[c].state = "new"
    /\ IF token = "" \/ verifyToken(token) = Null \/ verifyToken(token) \notin Tenants
       THEN conn' = [conn EXCEPT ![c] = [state |-> "open", authenticated |-> FALSE,
                                         isGuest |-> TRUE, tenantId |-> Null]]
       ELSE conn' = [conn EXCEPT ![c] = [state |-> "open", authenticated |-> TRUE,
                                         isGuest |-> FALSE, tenantId |-> verifyToken(token)]]
    /\ UNCHANGED <<store, rooms, inbox, inflight, emitted, lastResponse, nOps, nErrors, budgets, lastRequest, committed>>

\* socketAuthMiddleware followed by the "connection" handler.
socketAuthMiddleware(c, token) ==
    /\ conn[c].state = "new"
    /\ IF token = ""
       THEN conn' = [conn EXCEPT ![c] = [state |-> "open", authenticated |-> FALSE,
                                         isGuest |-> TRUE, tenantId |-> Null]]
       ELSE IF verifyToken(token) = Null
       THEN conn' = [conn EXCEPT ![c].state = "rejected"]
       ELSE IF verifyToken(token) \notin Tenants
       THEN conn' = [conn EXCEPT ![c].state = "rejected"]
       ELSE conn' = [conn EXCEPT ![c] = [state |-> "open", authenticated |-> TRUE,
                                         isGuest |-> FALSE, tenantId |-> verifyToken(token)]]
    /\ UNCHANGED <<store, rooms, inbox, inflight, emitted, lastResponse, nOps, nErrors, budgets, lastRequest, committed>>

\* socket.emit("error", ...) to socket c alone.
EmitError(c, message) ==
    /\ nErrors < errBudget
    /\ nErrors' = nErrors + 1
    /\ inbox' = [inbox EXCEPT ![c] = IF conn[c].state = "open"
                                     THEN Append(@, ErrorEvent(message)) ELSE @]

\* Mutant of join_room: the ownership check is missing.
join_room_anyTenant(c, tenantId) ==
    /\ conn[c].state = "open"
    /\ IF ~conn[c].authenticated
       THEN /\ EmitError(c, "Authentication required to join tenant room")
            /\ UNCHANGED rooms
       ELSE /\ rooms' = [rooms EXCEPT ![c] = @ \cup {TenantRoom(tenantId)}]
            /\ UNCHANGED <<inbox, nErrors>>
    /\ UNCHANGED <<store, conn, inflight, emitted, lastResponse, nOps, budgets, lastRequest, committed>>

\* Handle tenant joining their room: authenticated sockets, own room only.
join_room(c, tenantId) ==
    /\ conn[c].state = "open"
    /\ IF ~conn[c].authenticated
       THEN /\ EmitError(c, "Authentication required to join tenant room")
            /\ UNCHANGED rooms
       ELSE IF conn[c].tenantId # tenantId
       THEN /\ EmitError(c, "Cannot join another tenant's room")
            /\ UNCHANGED rooms
       ELSE /\ rooms' = [rooms EXCEPT ![c] = @ \cup {TenantRoom(tenantId)}]
            /\ UNCHANGED <<inbox, nErrors>>
    /\ UNCHANGED <<store, conn, inflight, emitted, lastResponse, nOps, budgets, lastRequest, committed>>

\* Mutant of validateTenantId: every id is taken for a tenant.
validateTenantId_any(tenantId) == tenantId \in TenantIdInputs

\* validateTenantId: the tenant row exists.
validateTenantId(tenantId) == tenantId \in Tenants

\* join_guest_room up to `await validateTenantId(tenantId)`.
join_guest_room(c, tenantId) ==
    /\ conn[c].state = "open"
    /\ Cardinality({r \in inflight : r.op = "join_guest_room"}) < MaxPendingJoins
    /\ validateTenantId(tenantId) \/ nErrors < errBudget
    /\ inflight' = inflight \cup
          { Cont(0, "join_guest_room", "join", 0, "", tenantId, 0, 0, <<>>,
                 IF validateTenantId(tenantId) THEN "valid" ELSE "invalid", c) }
    /\ UNCHANGED <<store, sockets, inbox, emitted, lastResponse, nOps, nErrors, budgets, lastRequest, committed>>

\* join_guest_room after the await: the socket may have disconnected meanwhile;
\* socket.join still registers the room with the adapter.
join_guest_room_resume(r) ==
    /\ r \in inflight /\ r.op = "join_guest_room"
    /\ inflight' = inflight \ {r}
    /\ IF r.status = "invalid"
       THEN /\ EmitError(r.conn, "Invalid tenant")
            /\ UNCHANGED rooms
       ELSE /\ rooms' = [rooms EXCEPT ![r.conn] = @ \cup {GuestRoom(r.tenantId)}]
            /\ UNCHANGED <<inbox, nErrors>>
    /\ UNCHANGED <<store, conn, emitted, lastResponse, nOps, budgets, lastRequest, committed>>

\* Mutant of leave: the socket is taken out of one of its rooms only.
leave_one(rm, c) ==
    [rm EXCEPT ![c] = IF @ = {} THEN {} ELSE @ \ {CHOOSE x \in @ : TRUE}]

\* The socket leaves every room it is in.
leave(rm, c) == [rm EXCEPT ![c] = {}]

\* Transport-level disconnect: socket.io removes the socket from all rooms.
disconnect(c) ==
    /\ conn[c].state = "open"
    /\ conn' = [conn EXCEPT ![c].state = "closed"]
    /\ rooms' = leave(rooms, c)
    /\ UNCHANGED <<store, inbox, inflight, emitted, lastResponse, nOps, nErrors, budgets, lastRequest, committed>>

\* ------------------------------------- socket handlers, legacy server
\* The legacy server installs no handshake middleware: every socket is
\* admitted and carries no identity.
legacy_connection(c) ==
    /\ conn[c].state = "new"
    /\ conn' = [conn EXCEPT ![c].state = "open"]
    /\ UNCHANGED <<store, rooms, inbox, inflight, emitted, lastResponse, nOps, nErrors, budgets, lastRequest, committed>>

\* The legacy join_room handler: any non-empty name is joined.
legacy_join_room(c, tenantId) ==
    /\ conn[c].state = "open"
    /\ IF ~FalsyStr(tenantId)
       THEN rooms' = [rooms EXCEPT ![c] = @ \cup {tenantId}]
       ELSE UNCHANGED rooms
    /\ UNCHANGED <<store, conn, inbox, inflight, emitted, lastResponse, nOps, nErrors, budgets, lastRequest, committed>>

\* ------------------------------------------------------- HTTP handlers
\* authenticateTenant: 401, or next() with req.tenant set.
authenticateTenant(token) ==
    IF token = ""
    THEN [code |-> 401, tenant |-> Null, error |-> "Authentication required"]
    ELSE IF verifyToken(token) = Null
    THEN [code |-> 401, tenant |-> Null, error |-> "Invalid or expired token"]
    ELSE IF verifyToken(token) \notin Tenants
    THEN [code |-> 401, tenant |-> Null, error |-> "Tenant not found"]
    ELSE [code |-> 200, tenant |-> verifyToken(token), error |-> ""]

\* A request is accepted and numbered.
Accept ==
    /\ nOps < budget
    /\ nOps' = nOps + 1

\* Mutant of Reject: the refusal is also announced to every socket.
Reject_announced(op, code, error) ==
    /\ lastResponse' = Response(nOps + 1, op, code, error)
    /\ emitted' = Append(emitted,
          [op |-> op, room |-> AllSockets, ev |-> Event("order_updated", nOps + 1, "", 0, "", error)])
    /\ UNCHANGED <<store, inflight, inbox, committed>>

\* res.status(code).json(...) with nothing written and nothing emitted.
Reject(op, code, error) ==
    /\ lastResponse' = Response(nOps + 1, op, code, error)
    /\ UNCHANGED <<store, inflight, inbox, emitted, committed>>

\* The handler's emits, then its response.
EmitAndRespond(r, es, code) ==
    /\ inbox' = DeliverAll(inbox, es)
    /\ emitted' = emitted \o Logged(r.op, es)
    /\ lastResponse' = Response(r.rid, r.op, code, "")
    /\ inflight' = inflight \ {r}

\* tx.product.findMany({ id in productIds, tenantId, isAvailable: true }).
findProducts(items, tenantId) ==
    { p \in DOMAIN products :
        /\ \E i \in DOMAIN items : items[i].productId = p
        /\ products[p].tenantId = tenantId
        /\ products[p].isAvailable }

\* Mutant of orderItems: the price the client sent is stored.
orderItems_clientPrice(items) ==
    [i \in DOMAIN items |->
        [productName |-> products[items[i].productId].name,
         quantity |-> items[i].quantity,
         price |-> items[i].price]]

\* The order items written for a request: name and price from the product row.
orderItems(items) ==
    [i \in DOMAIN items |->
        [productName |-> products[items[i].productId].name,
         quantity |-> items[i].quantity,
         price |-> products[items[i].productId].price]]

\* Mutant of createOrder: the order row and the items up to the first bad
\* product are written with no transaction around them.
createOrder_noRollback(tenantId, tableName, items, total) ==
    /\ Accept
    /\ lastRequest' = Request("createOrder", tenantId, 0, "")
    /\ IF FalsyStr(tenantId) \/ FalsyStr(tableName) \/ Len(items) = 0 \/ FalsyNum(total)
       THEN Reject("createOrder", 400, "Missing required fields")
       ELSE IF tenantId \notin Tenants
       THEN Reject("createOrder", 404, "Restaurant not found")
       ELSE IF \E i \in DOMAIN items : items[i].productId \notin findProducts(items, tenantId)
       THEN /\ orders' = Append(orders,
                   [tenantId |-> tenantId, tableName |-> tableName, status |-> "PENDING",
                    total |-> total,
                    items |-> orderItems(SubSeq(items, 1,
                        (CHOOSE i \in DOMAIN items :
                            /\ items[i].productId \notin findProducts(items, tenantId)
                            /\ \A j \in 1..(i - 1) : items[j].productId \in findProducts(items, tenantId)) - 1))])
            /\ lastResponse' = Response(nOps + 1, "createOrder", 500, "Failed to create order")
            /\ UNCHANGED <<products, tables, categories, inflight, inbox, emitted, committed>>
       ELSE /\ orders' = Append(orders,
                   [tenantId |-> tenantId, tableName |-> tableName, status |-> "PENDING",
                    total |-> total, items |-> orderItems(items)])
            /\ inflight' = inflight \cup
                   { Cont(nOps + 1, "createOrder", "emit", Len(orders) + 1, "", tenantId,
                          total, 0, orderItems(items), "PENDING", "") }
            /\ UNCHANGED <<products, tables, categories, inbox, emitted, lastResponse>>
            /\ Commit(nOps + 1, "createOrder", Len(orders) + 1, "")
    /\ UNCHANGED <<sockets, nErrors, budgets>>

\* createOrder up to the end of its transaction.
createOrder(tenantId, tableName, items, total) ==
    /\ Accept
    /\ lastRequest' = Request("createOrder", tenantId, 0, "")
    /\ IF FalsyStr(tenantId) \/ FalsyStr(tableName) \/ Len(items) = 0 \/ FalsyNum(total)
       THEN Reject("createOrder", 400, "Missing required fields")
       ELSE IF tenantId \notin Tenants
       THEN Reject("createOrder", 404, "Restaurant not found")
       ELSE IF \E i \in DOMAIN items : items[i].productId \notin findProducts(items, tenantId)
       THEN Reject("createOrder", 500, "Failed to create order")
       ELSE /\ orders' = Append(orders,
                   [tenantId |-> tenantId, tableName |-> tableName, status |-> "PENDING",
                    total |-> total, items |-> orderItems(items)])
            /\ inflight' = inflight \cup
                   { Cont(nOps + 1, "createOrder", "emit", Len(orders) + 1, "", tenantId,
                          total, 0, orderItems(items), "PENDING", "") }
            /\ UNCHANGED <<products, tables, categories, inbox, emitted, lastResponse>>
            /\ Commit(nOps + 1, "createOrder", Len(orders) + 1, "")
    /\ UNCHANGED <<sockets, nErrors, budgets>>

\* createOrder after the transaction: io.to(tenantId).emit("new_order", order).
createOrder_emit(r) ==
    /\ r \in inflight /\ r.op = "createOrder" /\ r.phase = "emit"
    /\ EmitAndRespond(r,
          << <<TenantRoom(r.tenantId), Event("new_order", r.rid, r.tenantId, r.id, "", r.status)>> >>,
          201)
    /\ UNCHANGED <<store, sockets, nOps, nErrors, budgets, lastRequest, committed>>

\* Mutant of addItemsToOrder: the status of the order is not looked at.
addItemsToOrder_anyStatus(id, items, additionalTotal) ==
    /\ Accept
    /\ lastRequest' = Request("addItemsToOrder", "", id, "")
    /\ IF Len(items) = 0 \/ FalsyNum(additionalTotal)
       THEN Reject("addItemsToOrder", 400, "Missing required fields")
       ELSE IF id \notin DOMAIN orders
       THEN Reject("addItemsToOrder", 404, "Order not found")
       ELSE IF \E i \in DOMAIN items :
                  items[i].productId \notin findProducts(items, orders[id].tenantId)
       THEN Reject("addItemsToOrder", 400, "Product not found or not available")
       ELSE /\ inflight' = inflight \cup
                   { Cont(nOps + 1, "addItemsToOrder", "tx", id, "", orders[id].tenantId,
                          orders[id].total, additionalTotal, orderItems(items),
                          orders[id].status, "") }
            /\ UNCHANGED <<store, inbox, emitted, lastResponse, committed>>
    /\ UNCHANGED <<sockets, nErrors, budgets>>

\* addItemsToOrder up to its transaction: the order and the products are read.
addItemsToOrder(id, items, additionalTotal) ==
    /\ Accept
    /\ lastRequest' = Request("addItemsToOrder", "", id, "")
    /\ IF Len(items) = 0 \/ FalsyNum(additionalTotal)
       THEN Reject("addItemsToOrder", 400, "Missing required fields")
       ELSE IF id \notin DOMAIN orders
       THEN Reject("addItemsToOrder", 404, "Order not found")
       ELSE IF orders[id].status # "PENDING"
       THEN Reject("addItemsToOrder", 400, "Cannot add items to order. Order status is not PENDING")
       ELSE IF \E i \in DOMAIN items :
                  items[i].productId \notin findProducts(items, orders[id].tenantId)
       THEN Reject("addItemsToOrder", 400, "Product not found or not available")
       ELSE /\ inflight' = inflight \cup
                   { Cont(nOps + 1, "addItemsToOrder", "tx", id, "", orders[id].tenantId,
                          orders[id].total, additionalTotal, orderItems(items),
                          orders[id].status, "") }
            /\ UNCHANGED <<store, inbox, emitted, lastResponse, committed>>
    /\ UNCHANGED <<sockets, nErrors, budgets>>

\* addItemsToOrder's transaction: createMany of the items, then the total is
\* set to the total read before plus additionalTotal.
addItemsToOrder_tx(r) ==
    /\ r \in inflight /\ r.op = "addItemsToOrder" /\ r.phase = "tx"
    /\ orders' = [orders EXCEPT ![r.id].items = @ \o r.items,
                                ![r.id].total = r.total + r.amount]
    /\ inflight' = (inflight \ {r}) \cup
           { [r EXCEPT !.phase = "emit", !.status = orders[r.id].status] }
    /\ Commit(r.rid, "addItemsToOrder", r.id, "")
    /\ UNCHANGED <<products, tables, categories, sockets, inbox, emitted, lastResponse, nOps, nErrors, budgets, lastRequest>>

\* addItemsToOrder after the transaction:
\* io.to(existingOrder.tenantId).emit("order_updated", updatedOrder).
addItemsToOrder_emit(r) ==
    /\ r \in inflight /\ r.op = "addItemsToOrder" /\ r.phase = "emit"
    /\ EmitAndRespond(r,
          << <<TenantRoom(r.tenantId), Event("order_updated", r.rid, r.tenantId, r.id, "", r.status)>> >>,
          200)
    /\ UNCHANGED <<store, sockets, nOps, nErrors, budgets, lastRequest, committed>>

\* Mutant of updateOrderStatus: the order is looked up by id alone.
updateOrderStatus_anyOwner(token, id, status) ==
    /\ Accept
    /\ lastRequest' = Request("updateOrderStatus", token, id, "")
    /\ IF authenticateTenant(token).code # 200
       THEN Reject("updateOrderStatus", authenticateTenant(token).code, authenticateTenant(token).error)
       ELSE IF FalsyStr(status) \/ status \notin {"PENDING", "CONFIRMED", "DONE", "CANCELLED"}
       THEN Reject("updateOrderStatus", 400,
                   "Invalid status. Must be one of: PENDING, CONFIRMED, DONE, CANCELLED")
       ELSE IF id \notin DOMAIN orders
       THEN Reject("updateOrderStatus", 404, "Order not found")
       ELSE /\ orders' = [orders EXCEPT ![id].status = status]
            /\ inflight' = inflight \cup
                   { Cont(nOps + 1, "updateOrderStatus", "emit", id, "", orders[id].tenantId,
                          orders[id].total, 0, <<>>, status, "") }
            /\ UNCHANGED <<products, tables, categories, inbox, emitted, lastResponse>>
            /\ Commit(nOps + 1, "updateOrderStatus", id, "")
    /\ UNCHANGED <<sockets, nErrors, budgets>>

\* authenticateTenant, then updateOrderStatus up to the end of its update.
\* The row found by findFirst cannot change owner or vanish before the update.
updateOrderStatus(token, id, status) ==
    /\ Accept
    /\ lastRequest' = Request("updateOrderStatus", token, id, "")
    /\ IF authenticateTenant(token).code # 200
       THEN Reject("updateOrderStatus", authenticateTenant(token).code, authenticateTenant(token).error)
       ELSE IF FalsyStr(status) \/ status \notin {"PENDING", "CONFIRMED", "DONE", "CANCELLED"}
       THEN Reject("updateOrderStatus", 400,
                   "Invalid status. Must be one of: PENDING, CONFIRMED, DONE, CANCELLED")
       ELSE IF ~(id \in DOMAIN orders /\ orders[id].tenantId = authenticateTenant(token).tenant)
       THEN Reject("updateOrderStatus", 404, "Order not found")
       ELSE /\ orders' = [orders EXCEPT ![id].status = status]
            /\ inflight' = inflight \cup
                   { Cont(nOps + 1, "updateOrderStatus", "emit", id, "", orders[id].tenantId,
                          orders[id].total, 0, <<>>, status, "") }
            /\ UNCHANGED <<products, tables, categories, inbox, emitted, lastResponse>>
            /\ Commit(nOps + 1, "updateOrderStatus", id, "")
    /\ UNCHANGED <<sockets, nErrors, budgets>>

\* updateOrderStatus after the update: io.emit("order_updated", updatedOrder).
updateOrderStatus_emit(r) ==
    /\ r \in inflight /\ r.op = "updateOrderStatus" /\ r.phase = "emit"
    /\ EmitAndRespond(r,
          << <<AllSockets, Event("order_updated", r.rid, r.tenantId, r.id, "", r.status)>> >>,
          200)
    /\ UNCHANGED <<store, sockets, nOps, nErrors, budgets, lastRequest, committed>>

\* authenticateTenant, then updateTableStatus up to the end of its update.
updateTableStatus(token, tableId, status) ==
    /\ Accept
    /\ lastRequest' = Request("updateTableStatus", token, 0, tableId)
    /\ IF authenticateTenant(token).code # 200
       THEN Reject("updateTableStatus", authenticateTenant(token).code, authenticateTenant(token).error)
       ELSE IF FalsyStr(status) \/ status \notin {"LOCKED", "ACTIVE"}
       THEN Reject("updateTableStatus", 400, "Invalid status. Must be LOCKED or ACTIVE")
       ELSE IF ~(tableId \in DOMAIN tables
                 /\ tables[tableId].tenantId = authenticateTenant(token).tenant)
       THEN Reject("updateTableStatus", 404, "Table not found")
       ELSE /\ tables' = [tables EXCEPT ![tableId].status = status]
            /\ inflight' = inflight \cup
                   { Cont(nOps + 1, "updateTableStatus", "emit", 0, tableId,
                          authenticateTenant(token).tenant, 0, 0, <<>>, status, "") }
            /\ UNCHANGED <<products, orders, categories, inbox, emitted, lastResponse>>
            /\ Commit(nOps + 1, "updateTableStatus", 0, tableId)
    /\ UNCHANGED <<sockets, nErrors, budgets>>

\* Mutant of updateTableStatus_emit: the guest room is forgotten.
updateTableStatus_emit_tenantOnly(r) ==
    /\ r \in inflight /\ r.op = "updateTableStatus" /\ r.phase = "emit"
    /\ LET payload == Event("table_status_changed", r.rid, r.tenantId, 0, r.tableId, r.status)
       IN EmitAndRespond(r, << <<TenantRoom(r.tenantId), payload>> >>, 200)
    /\ UNCHANGED <<store, sockets, nOps, nErrors, budgets, lastRequest, committed>>

\* updateTableStatus after the update: table_status_changed to the tenant
\* room, then to the guest room.
updateTableStatus_emit(r) ==
    /\ r \in inflight /\ r.op = "updateTableStatus" /\ r.phase = "emit"
    /\ LET payload == Event("table_status_changed", r.rid, r.tenantId, 0, r.tableId, r.status)
       IN EmitAndRespond(r,
             << <<TenantRoom(r.tenantId), payload>>, <<GuestRoom(r.tenantId), payload>> >>,
             200)
    /\ UNCHANGED <<store, sockets, nOps, nErrors, budgets, lastRequest, committed>>

\* Mutant of markTableAsPaid: the table is looked up by id alone.
markTableAsPaid_anyOwner(token, tableId) ==
    /\ Accept
    /\ lastRequest' = Request("markTableAsPaid", token, 0, tableId)
    /\ IF authenticateTenant(token).code # 200
       THEN Reject("markTableAsPaid", authenticateTenant(token).code, authenticateTenant(token).error)
       ELSE IF tableId \notin DOMAIN tables
       THEN Reject("markTableAsPaid", 404, "Table not found")
       ELSE /\ tables' = [tables EXCEPT ![tableId].status = "LOCKED"]
            /\ inflight' = inflight \cup
                   { Cont(nOps + 1, "markTableAsPaid", "emit", 0, tableId,
                          authenticateTenant(token).tenant, 0, 0, <<>>, "LOCKED", "") }
            /\ UNCHANGED <<products, orders, categories, inbox, emitted, lastResponse>>
            /\ Commit(nOps + 1, "markTableAsPaid", 0, tableId)
    /\ UNCHANGED <<sockets, nErrors, budgets>>

\* Mutant of markTableAsPaid: the tenant's open orders are closed with the
\* table.
markTableAsPaid_closesOrders(token, tableId) ==
    /\ Accept
    /\ lastRequest' = Request("markTableAsPaid", token, 0, tableId)
    /\ IF authenticateTenant(token).code # 200
       THEN Reject("markTableAsPaid", authenticateTenant(token).code, authenticateTenant(token).error)
       ELSE IF ~(tableId \in DOMAIN tables
                 /\ tables[tableId].tenantId = authenticateTenant(token).tenant)
       THEN Reject("markTableAsPaid", 404, "Table not found")
       ELSE /\ tables' = [tables EXCEPT ![tableId].status = "LOCKED"]
            /\ orders' = [id \in DOMAIN orders |->
                            IF orders[id].tenantId = authenticateTenant(token).tenant
                            THEN [orders[id] EXCEPT !.status = "DONE"] ELSE orders[id]]
            /\ inflight' = inflight \cup
                   { Cont(nOps + 1, "markTableAsPaid", "emit", 0, tableId,
                          authenticateTenant(token).tenant, 0, 0, <<>>, "LOCKED", "") }
            /\ UNCHANGED <<products, categories, inbox, emitted, lastResponse>>
            /\ Commit(nOps + 1, "markTableAsPaid", 0, tableId)
    /\ UNCHANGED <<sockets, nErrors, budgets>>

\* authenticateTenant, then markTableAsPaid up to the end of its update.
markTableAsPaid(token, tableId) ==
    /\ Accept
    /\ lastRequest' = Request("markTableAsPaid", token, 0, tableId)
    /\ IF authenticateTenant(token).code # 200
       THEN Reject("markTableAsPaid", authenticateTenant(token).code, authenticateTenant(token).error)
       ELSE IF ~(tableId \in DOMAIN tables
                 /\ tables[tableId].tenantId = authenticateTenant(token).tenant)
       THEN Reject("markTableAsPaid", 404, "Table not found")
       ELSE /\ tables' = [tables EXCEPT ![tableId].status = "LOCKED"]
            /\ inflight' = inflight \cup
                   { Cont(nOps + 1, "markTableAsPaid", "emit", 0, tableId,
                          authenticateTenant(token).tenant, 0, 0, <<>>, "LOCKED", "") }
            /\ UNCHANGED <<products, orders, categories, inbox, emitted, lastResponse>>
            /\ Commit(nOps + 1, "markTableAsPaid", 0, tableId)
    /\ UNCHANGED <<sockets, nErrors, budgets>>

\* Mutant of markTableAsPaid_emit: table_paid goes to every socket.
markTableAsPaid_emit_global(r) ==
    /\ r \in inflight /\ r.op = "markTableAsPaid" /\ r.phase = "emit"
    /\ LET paid == Event("table_paid", r.rid, r.tenantId, 0, r.tableId, "LOCKED")
           changed == Event("table_status_changed", r.rid, r.tenantId, 0, r.tableId, "LOCKED")
       IN EmitAndRespond(r,
             << <<AllSockets, paid>>,
                <<TenantRoom(r.tenantId), changed>>, <<GuestRoom(r.tenantId), changed>> >>,
             200)
    /\ UNCHANGED <<store, sockets, nOps, nErrors, budgets, lastRequest, committed>>

\* Mutant of markTableAsPaid_emit: table_status_changed is emitted before
\* table_paid.
markTableAsPaid_emit_changedFirst(r) ==
    /\ r \in inflight /\ r.op = "markTableAsPaid" /\ r.phase = "emit"
    /\ LET paid == Event("table_paid", r.rid, r.tenantId, 0, r.tableId, "LOCKED")
           changed == Event("table_status_changed", r.rid, r.tenantId, 0, r.tableId, "LOCKED")
       IN EmitAndRespond(r,
             << <<TenantRoom(r.tenantId), changed>>, <<GuestRoom(r.tenantId), changed>>,
                <<TenantRoom(r.tenantId), paid>>, <<GuestRoom(r.tenantId), paid>> >>,
             200)
    /\ UNCHANGED <<store, sockets, nOps, nErrors, budgets, lastRequest, committed>>

\* markTableAsPaid after the update: table_paid to the tenant room and the
\* guest room, then table_status_changed to the tenant room and the guest room.
markTableAsPaid_emit(r) ==
    /\ r \in inflight /\ r.op = "markTableAsPaid" /\ r.phase = "emit"
    /\ LET paid == Event("table_paid", r.rid, r.tenantId, 0, r.tableId, "LOCKED")
           changed == Event("table_status_changed", r.rid, r.tenantId, 0, r.tableId, "LOCKED")
       IN EmitAndRespond(r,
             << <<TenantRoom(r.tenantId), paid>>, <<GuestRoom(r.tenantId), paid>>,
                <<TenantRoom(r.tenantId), changed>>, <<GuestRoom(r.tenantId), changed>> >>,
             200)
    /\ UNCHANGED <<store, sockets, nOps, nErrors, budgets, lastRequest, committed>>

\* ------------------------------------------ HTTP handlers, legacy server
\* The legacy authenticateTenant: the x-tenant-id header names the tenant.
legacy_authenticateTenant(tenantId) ==
    IF FalsyStr(tenantId)
    THEN [code |-> 401, tenant |-> Null, error |-> "Missing tenant ID"]
    ELSE IF tenantId \notin Tenants
    THEN [code |-> 401, tenant |-> Null, error |-> "Invalid tenant ID"]
    ELSE [code |-> 200, tenant |-> tenantId, error |-> ""]

\* The legacy authenticateTenant, then updateOrderStatus up to the end of its
\* update.
legacy_updateOrderStatus(tenantId, id, status) ==
    /\ Accept
    /\ lastRequest' = Request("updateOrderStatus", tenantId, id, "")
    /\ IF legacy_authenticateTenant(tenantId).code # 200
       THEN Reject("updateOrderStatus", legacy_authenticateTenant(tenantId).code,
                   legacy_authenticateTenant(tenantId).error)
       ELSE IF FalsyStr(status) \/ status \notin {"PENDING", "CONFIRMED", "DONE", "CANCELLED"}
       THEN Reject("updateOrderStatus", 400,
                   "Invalid status. Must be one of: PENDING, CONFIRMED, DONE, CANCELLED")
       ELSE IF ~(id \in DOMAIN orders /\ orders[id].tenantId = legacy_authenticateTenant(tenantId).tenant)
       THEN Reject("updateOrderStatus", 404, "Order not found")
       ELSE /\ orders' = [orders EXCEPT ![id].status = status]
            /\ inflight' = inflight \cup
                   { Cont(nOps + 1, "updateOrderStatus", "emit", id, "", orders[id].tenantId,
                          orders[id].total, 0, <<>>, status, "") }
            /\ UNCHANGED <<products, tables, categories, inbox, emitted, lastResponse>>
            /\ Commit(nOps + 1, "updateOrderStatus", id, "")
    /\ UNCHANGED <<sockets, nErrors, budgets>>

\* ------------------------------------------------------ product catalogue
\* Values a tenant may send when it edits a product.
ProductNameInputs == {"Summer Rolls"}
PriceInputs == {6}

\* The id the store gives the product row created by request rid.
NewProductId(rid) == "pN" \o ToString(rid)

\* prisma.category.findFirst({ id: categoryId, tenantId }): the row exists.
findCategory(categoryId, tenantId) ==
    categoryId \in DOMAIN categories /\ categories[categoryId].tenantId = tenantId

\* POST /api/products behind authenticateTenant, up to the await of
\* prisma.product.create: the body is checked and the category is looked up.
\* The request carries no imageUrl and no isAvailable.
createProduct(token, name, price, categoryId) ==
    /\ Accept
    /\ lastRequest' = Request("createProduct", token, 0, categoryId)
    /\ IF authenticateTenant(token).code # 200
       THEN Reject("createProduct", authenticateTenant(token).code, authenticateTenant(token).error)
       ELSE IF FalsyStr(name) \/ FalsyNum(price) \/ FalsyStr(categoryId)
       THEN Reject("createProduct", 400, "Name, price, and categoryId are required")
       ELSE IF ~findCategory(categoryId, authenticateTenant(token).tenant)
       THEN Reject("createProduct", 404, "Category not found")
       ELSE /\ inflight' = inflight \cup
                   { Cont(nOps + 1, "createProduct", "create", 0, "",
                          authenticateTenant(token).tenant, 0, 0,
                          << [name |-> name, price |-> price, isAvailable |-> TRUE,
                              categoryId |-> categoryId] >>, "", "") }
            /\ UNCHANGED <<store, inbox, emitted, lastResponse, committed>>
    /\ UNCHANGED <<sockets, nErrors, budgets>>

\* createProduct's prisma.product.create and its 201.
createProduct_create(r) ==
    /\ r \in inflight /\ r.op = "createProduct" /\ r.phase = "create"
    /\ products' = [q \in DOMAIN products \cup {NewProductId(r.rid)} |->
                       IF q = NewProductId(r.rid)
                       THEN [tenantId |-> r.tenantId, name |-> r.items[1].name,
                             price |-> r.items[1].price,
                             isAvailable |-> r.items[1].isAvailable,
                             categoryId |-> r.items[1].categoryId]
                       ELSE products[q]]
    /\ Commit(r.rid, "createProduct", 0, NewProductId(r.rid))
    /\ lastResponse' = Response(r.rid, r.op, 201, "")
    /\ inflight' = inflight \ {r}
    /\ UNCHANGED <<orders, tables, categories, sockets, inbox, emitted, nOps, nErrors, budgets, lastRequest>>

\* PUT /api/products/:id behind authenticateTenant, up to the await of
\* prisma.product.update: the product is looked up and, when the body names a
\* category, the category too.  The body carries name, price and isAvailable;
\* categoryId is Undefined when it is not sent.
updateProduct(token, p, name, price, isAvailable, categoryId) ==
    /\ Accept
    /\ lastRequest' = Request("updateProduct", token, 0, p)
    /\ IF authenticateTenant(token).code # 200
       THEN Reject("updateProduct", authenticateTenant(token).code, authenticateTenant(token).error)
       ELSE IF ~(p \in DOMAIN products /\ products[p].tenantId = authenticateTenant(token).tenant)
       THEN Reject("updateProduct", 404, "Product not found")
       ELSE IF categoryId # Undefined /\ ~FalsyStr(categoryId)
               /\ ~findCategory(categoryId, authenticateTenant(token).tenant)
       THEN Reject("updateProduct", 404, "Category not found")
       ELSE /\ inflight' = inflight \cup
                   { Cont(nOps + 1, "updateProduct", "update", 0, p,
                          authenticateTenant(token).tenant, 0, 0,
                          << [name |-> name, price |-> price, isAvailable |-> isAvailable,
                              categoryId |-> categoryId] >>, "", "") }
            /\ UNCHANGED <<store, inbox, emitted, lastResponse, committed>>
    /\ UNCHANGED <<sockets, nErrors, budgets>>

\* updateProduct's prisma.product.update({ where: { id }, data: updateData })
\* and its response; update throws when the row is gone.
updateProduct_update(r) ==
    /\ r \in inflight /\ r.op = "updateProduct" /\ r.phase = "update"
    /\ IF r.tableId \notin DOMAIN products
       THEN /\ lastResponse' = Response(r.rid, r.op, 500, "Failed to update product")
            /\ UNCHANGED <<products, committed>>
       ELSE /\ products' = [products EXCEPT
                   ![r.tableId].name = IF r.items[1].name = Undefined THEN @ ELSE r.items[1].name,
                   ![r.tableId].price = r.items[1].price,
                   ![r.tableId].isAvailable = r.items[1].isAvailable,
                   ![r.tableId].categoryId =
                       IF r.items[1].categoryId = Undefined THEN @ ELSE r.items[1].categoryId]
            /\ Commit(r.rid, "updateProduct", 0, r.tableId)
            /\ lastResponse' = Response(r.rid, r.op, 200, "")
    /\ inflight' = inflight \ {r}
    /\ UNCHANGED <<orders, tables, categories, sockets, inbox, emitted, nOps, nErrors, budgets, lastRequest>>

\* DELETE /api/products/:id behind authenticateTenant, up to the await of
\* prisma.product.delete.
deleteProduct(token, p) ==
    /\ Accept
    /\ lastRequest' = Request("deleteProduct", token, 0, p)
    /\ IF authenticateTenant(token).code # 200
       THEN Reject("deleteProduct", authenticateTenant(token).code, authenticateTenant(token).error)
       ELSE IF ~(p \in DOMAIN products /\ products[p].tenantId = authenticateTenant(token).tenant)
       THEN Reject("deleteProduct", 404, "Product not found")
       ELSE /\ inflight' = inflight \cup
                   { Cont(nOps + 1, "deleteProduct", "delete", 0, p,
                          authenticateTenant(token).tenant, 0, 0, <<>>, "", "") }
            /\ UNCHANGED <<store, inbox, emitted, lastResponse, committed>>
    /\ UNCHANGED <<sockets, nErrors, budgets>>

\* deleteProduct's prisma.product.delete({ where: { id } }) and its response;
\* delete throws when the row is gone.
deleteProduct_delete(r) ==
    /\ r \in inflight /\ r.op = "deleteProduct" /\ r.phase = "delete"
    /\ IF r.tableId \notin DOMAIN products
       THEN /\ lastResponse' = Response(r.rid, r.op, 500, "Failed to delete product")
            /\ UNCHANGED <<products, committed>>
       ELSE /\ products' = [q \in DOMAIN products \ {r.tableId} |-> products[q]]
            /\ Commit(r.rid, "deleteProduct", 0, r.tableId)
            /\ lastResponse' = Response(r.rid, r.op, 200, "")
    /\ inflight' = inflight \ {r}
    /\ UNCHANGED <<orders, tables, categories, sockets, inbox, emitted, nOps, nErrors, budgets, lastRequest>>

\* category.products of findFirst({ ..., include: { products: true } }).
productsOf(categoryId) == { p \in DOMAIN products : products[p].categoryId = categoryId }

\* DELETE /api/categories/:id behind authenticateTenant, up to the await of
\* prisma.category.delete: the category is read with its products.
deleteCategory(token, categoryId) ==
    /\ Accept
    /\ lastRequest' = Request("deleteCategory", token, 0, categoryId)
    /\ IF authenticateTenant(token).code # 200
       THEN Reject("deleteCategory", authenticateTenant(token).code, authenticateTenant(token).error)
       ELSE IF ~findCategory(categoryId, authenticateTenant(token).tenant)
       THEN Reject("deleteCategory", 404, "Category not found")
       ELSE IF productsOf(categoryId) # {}
       THEN Reject("deleteCategory", 400,
                   "Cannot delete category with existing products. Please remove or move products first.")
       ELSE /\ inflight' = inflight \cup
                   { Cont(nOps + 1, "deleteCategory", "delete", 0, categoryId,
                          authenticateTenant(token).tenant, 0, 0, <<>>, "", "") }
            /\ UNCHANGED <<store, inbox, emitted, lastResponse, committed>>
    /\ UNCHANGED <<sockets, nErrors, budgets>>

\* deleteCategory's prisma.category.delete({ where: { id } }) and its
\* response; delete throws when the row is gone.
deleteCategory_delete(r) ==
    /\ r \in inflight /\ r.op = "deleteCategory" /\ r.phase = "delete"
    /\ IF r.tableId \notin DOMAIN categories
       THEN /\ lastResponse' = Response(r.rid, r.op, 500, "Failed to delete category")
            /\ UNCHANGED <<categories, committed>>
       ELSE /\ categories' = [k \in DOMAIN categories \ {r.tableId} |-> categories[k]]
            /\ Commit(r.rid, "deleteCategory", 0, r.tableId)
            /\ lastResponse' = Response(r.rid, r.op, 200, "")
    /\ inflight' = inflight \ {r}
    /\ UNCHANGED <<products, orders, tables, sockets, inbox, emitted, nOps, nErrors, budgets, lastRequest>>

\* ---------------------------------------------------------- specifications
\* The tokens each socket may present at its handshake.
ConnTokens(c) == IF c = "c1" THEN {"", "bad", "jwt:TX", "jwt:T1"} ELSE {"", "jwt:T2"}

\* The order routes: a request arrives or a continuation runs.
OrderRoutes ==
    \/ \E t \in TenantIdInputs, n \in TableNameInputs, items \in ItemListInputs, total \in TotalInputs :
          createOrder(t, n, items, total)
    \/ \E r \in inflight : createOrder_emit(r)
    \/ \E id \in OrderIdInputs, items \in ItemListInputs, total \in TotalInputs :
          addItemsToOrder(id, items, total)
    \/ \E r \in inflight : addItemsToOrder_tx(r)
    \/ \E r \in inflight : addItemsToOrder_emit(r)
    \/ \E token \in Tokens, id \in OrderIdInputs, status \in StatusInputs :
          updateOrderStatus(token, id, status)
    \/ \E r \in inflight : updateOrderStatus_emit(r)

\* The table routes.
TableRoutes ==
    \/ \E token \in Tokens, t \in TableIdInputs, status \in TableStatuses \cup {"BOGUS"} :
          updateTableStatus(token, t, status)
    \/ \E r \in inflight : updateTableStatus_emit(r)
    \/ \E token \in Tokens, t \in TableIdInputs : markTableAsPaid(token, t)
    \/ \E r \in inflight : markTableAsPaid_emit(r)

\* Every route of the controllers.
Http ==
    \/ OrderRoutes
    \/ TableRoutes

\* The room router: the handshake and the handlers of a connection.
RoomRouter ==
    \/ \E c \in Conns : \E token \in ConnTokens(c) : socketAuthMiddleware(c, token)
    \/ \E c \in Conns, t \in TenantIdInputs : join_room(c, t)
    \/ \E c \in Conns, t \in TenantIdInputs : join_guest_room(c, t)
    \/ \E r \in inflight : join_guest_room_resume(r)
    \/ \E c \in Conns : disconnect(c)

\* The server: socket handlers and controllers.
Next ==
    \/ RoomRouter
    \/ Http

Spec == Init /\ [][Next]_vars

\* A continuation that publishes the event of a committed write resumes.
Resume ==
    \E r \in inflight :
       \/ createOrder_emit(r)
       \/ addItemsToOrder_emit(r)
       \/ updateOrderStatus_emit(r)
       \/ updateTableStatus_emit(r)
       \/ markTableAsPaid_emit(r)

\* The server with an event loop that does not crash: a continuation whose
\* awaited write has resolved is eventually run.
SpecFair == Init /\ [][Next]_vars /\ WF_vars(Resume)

\* The room router alone: no HTTP request is served.
InitSockets == Start(0, MaxErrors)

SpecSockets == InitSockets /\ [][RoomRouter]_vars

\* The controllers alone: no socket is connected.
InitStore == Start(MaxStoreOps, 0)

SpecStore == InitStore /\ [][Http]_vars

\* The legacy server: its connection handling in front of the controllers.
InitLegacy == Start(MaxOps, 0)

\* Names a legacy client may send to join_room.
LegacyRoomInputs == TenantIdInputs \cup {""}

NextLegacy ==
    \/ \E c \in Conns : legacy_connection(c)
    \/ \E c \in Conns, t \in LegacyRoomInputs : legacy_join_room(c, t)
    \/ \E c \in Conns : disconnect(c)
    \/ Http

SpecLegacy == InitLegacy /\ [][NextLegacy]_vars

\* The product and category routes that move products between categories
\* and delete categories.
CategoryRoutes ==
    \/ \E token \in Tokens, name \in ProductNameInputs \cup {""}, price \in PriceInputs,
          k \in CategoryIdInputs : createProduct(token, name, price, k)
    \/ \E r \in inflight : createProduct_create(r)
    \/ \E token \in Tokens, p \in ProductIdInputs, name \in ProductNameInputs,
          price \in PriceInputs, k \in CategoryIdInputs \cup {Undefined} :
          updateProduct(token, p, name, price, TRUE, k)
    \/ \E r \in inflight : updateProduct_update(r)
    \/ \E token \in Tokens, p \in ProductIdInputs : deleteProduct(token, p)
    \/ \E r \in inflight : deleteProduct_delete(r)
    \/ \E token \in Tokens, k \in CategoryIdInputs : deleteCategory(token, k)
    \/ \E r \in inflight : deleteCategory_delete(r)

\* The catalogue routes alone: no socket is connected, no order is placed.
SpecCategories == InitStore /\ [][CategoryRoutes]_vars

\* The product routes.
Catalog ==
    \/ \E token \in Tokens, p \in ProductIdInputs, name \in ProductNameInputs,
          price \in PriceInputs, isAvailable \in BOOLEAN :
          updateProduct(token, p, name, price, isAvailable, Undefined)
    \/ \E r \in inflight : updateProduct_update(r)
    \/ \E token \in Tokens, p \in ProductIdInputs : deleteProduct(token, p)
    \/ \E r \in inflight : deleteProduct_delete(r)

\* The order routes with the product routes: no socket is connected.
SpecCatalog == InitStore /\ [][OrderRoutes \/ Catalog]_vars

\* Values a legacy client may send in the x-tenant-id header.
HeaderInputs == TenantIdInputs \cup {""}

\* The legacy order routes: POST / and PUT /:id/status behind the legacy
\* authenticateTenant.
LegacyOrderRoutes ==
    \/ \E t \in TenantIdInputs, n \in TableNameInputs, items \in ItemListInputs, total \in TotalInputs :
          createOrder(t, n, items, total)
    \/ \E r \in inflight : createOrder_emit(r)
    \/ \E h \in HeaderInputs, id \in OrderIdInputs, status \in StatusInputs :
          legacy_updateOrderStatus(h, id, status)
    \/ \E r \in inflight : updateOrderStatus_emit(r)

SpecHeaderAuth == InitStore /\ [][LegacyOrderRoutes]_vars

\* ----------------------------------------------------------------- claims
TenantEvents == {"new_order", "order_updated", "table_status_changed", "table_paid"}

\* The events socket c receives in the step.
Received(c) == SubSeq(inbox'[c], Len(inbox[c]) + 1, Len(inbox'[c]))

\* Socket c is in some room, and only in rooms of tenant t.
OnlyRoomsOf(c, t) ==
    /\ rooms[c] # {}
    /\ rooms[c] \subseteq {TenantRoom(t), GuestRoom(t)}

\* C1: an event about tenant T1's orders or tables (new_order, order_updated,
\* table_status_changed, table_paid) is never received by a socket whose
\* rooms are only rooms of another tenant T2.
C1_TenantIsolation ==
    [][ \A c \in Conns : \A T1 \in Tenants, T2 \in Tenants :
          (T1 # T2 /\ OnlyRoomsOf(c, T2))
             => \A i \in DOMAIN Received(c) :
                   ~(Received(c)[i].name \in TenantEvents /\ Received(c)[i].tenantId = T1) ]_vars

\* C8: the order_updated event of a successful updateOrderStatus on an order
\* of tenant T is received only by sockets in room T or room guest:T.
C8_StatusUpdateScoped ==
    [][ \A r \in inflight : updateOrderStatus_emit(r)
          => \A c \in Conns :
                Received(c) # <<>>
                   => (TenantRoom(r.tenantId) \in rooms[c] \/ GuestRoom(r.tenantId) \in rooms[c]) ]_vars

\* The transitions of the order state machine.
LegalTransitions ==
    { <<"PENDING", "CONFIRMED">>, <<"PENDING", "CANCELLED">>,
      <<"CONFIRMED", "DONE">>, <<"CONFIRMED", "CANCELLED">> }

\* C3: every change of an order's status is a transition of the state
\* machine; in particular the status of a DONE or CANCELLED order never
\* changes.
C3_StatusMachine ==
    [][ \A id \in DOMAIN orders :
          orders'[id].status # orders[id].status
             => <<orders[id].status, orders'[id].status>> \in LegalTransitions ]_vars
\* The dashboard rooms.
TenantRooms == { TenantRoom(t) : t \in TenantIdInputs }

\* C2: a socket that did not authenticate is never in a tenant dashboard
\* room, whatever tenantId it sends to join_room.
C2_GuestNeverInTenantRoom ==
    \A c \in Conns : ~conn[c].authenticated => rooms[c] \cap TenantRooms = {}

\* C6: a createOrder for tenant T emits exactly one new_order, to room T, and
\* it is received by the sockets in room T alone, never by a socket that did
\* not authenticate and never by a socket that is only in guest:T.
C6_NewOrderPrivate ==
    [][ \A r \in inflight : createOrder_emit(r)
          => /\ Len(emitted') = Len(emitted) + 1
             /\ emitted'[Len(emitted')].room = TenantRoom(r.tenantId)
             /\ emitted'[Len(emitted')].ev.name = "new_order"
             /\ \A c \in Conns :
                   Received(c) # <<>>
                      => /\ TenantRoom(r.tenantId) \in rooms[c]
                         /\ conn[c].authenticated
                         /\ rooms[c] # {GuestRoom(r.tenantId)} ]_vars

\* A product id names an available product of tenant t.
Orderable(p, t) ==
    /\ p \in DOMAIN products
    /\ products[p].tenantId = t
    /\ products[p].isAvailable

\* C4: createOrder either appends one PENDING order holding every requested
\* item and the requested total, or leaves the order table as it was; it
\* fails, writing nothing, exactly when the tenant is unknown, the item list
\* is empty, the total is missing, or some product is missing, of another
\* tenant, or unavailable.
C4_CreateOrderAtomic ==
    [][ \A t \in TenantIdInputs, n \in TableNameInputs, items \in ItemListInputs, total \in TotalInputs :
          createOrder(t, n, items, total)
             => IF \/ t \notin Tenants \/ Len(items) = 0 \/ total = 0
                   \/ \E i \in DOMAIN items : ~Orderable(items[i].productId, t)
                THEN /\ orders' = orders
                     /\ lastResponse'.rid = nOps'
                     /\ lastResponse'.code \in {400, 404, 500}
                ELSE /\ Len(orders') = Len(orders) + 1
                     /\ \A id \in DOMAIN orders : orders'[id] = orders[id]
                     /\ orders'[Len(orders')].status = "PENDING"
                     /\ orders'[Len(orders')].tenantId = t
                     /\ orders'[Len(orders')].total = total
                     /\ Len(orders'[Len(orders')].items) = Len(items)
                     /\ \A i \in DOMAIN items :
                           /\ orders'[Len(orders')].items[i].quantity = items[i].quantity
                           /\ orders'[Len(orders')].items[i].productName
                                 = products[items[i].productId].name ]_vars

\* A createOrder naming a product of another tenant has failed and the order
\* table holds the persisted order alone.
C4_Witness ==
    /\ lastResponse = Response(1, "createOrder", 500, "Failed to create order")
    /\ Len(orders) = 1

\* C5: addItemsToOrder on an order whose status is not PENDING answers 400,
\* changes no order, starts no transaction and emits nothing.
C5_AddItemsNeedsPending ==
    [][ \A id \in OrderIdInputs, items \in ItemListInputs, amount \in TotalInputs :
          (addItemsToOrder(id, items, amount) /\ id \in DOMAIN orders /\ orders[id].status # "PENDING")
             => /\ lastResponse'.rid = nOps'
                /\ lastResponse'.op = "addItemsToOrder"
                /\ lastResponse'.code = 400
                /\ orders' = orders
                /\ inflight' = inflight
                /\ emitted' = emitted
                /\ inbox' = inbox ]_vars

\* addItemsToOrder has been refused because the order is no longer PENDING.
C5_Witness ==
    /\ lastResponse.op = "addItemsToOrder"
    /\ lastResponse.error = "Cannot add items to order. Order status is not PENDING"
    /\ orders[1].status # "PENDING"
    /\ Len(orders[1].items) = 1
    /\ orders[1].total = 5

\* The entries the step adds to the emit log.
Emitted == SubSeq(emitted', Len(emitted) + 1, Len(emitted'))

\* C7: markTableAsPaid on a table of tenant T sets its status to LOCKED
\* whatever it was, and emits table_paid and table_status_changed to room T
\* and room guest:T and nowhere else: the sockets of those two rooms receive
\* both events and no other socket receives anything.
C7_MarkPaid ==
    [][ /\ \A token \in Tokens, t \in TableIds :
             (markTableAsPaid(token, t) /\ tables[t].tenantId = verifyToken(token))
                => tables'[t].status = "LOCKED"
        /\ \A r \in inflight : markTableAsPaid_emit(r)
             => /\ { <<Emitted[i].ev.name, Emitted[i].room>> : i \in DOMAIN Emitted }
                      = {"table_paid", "table_status_changed"}
                           \X {TenantRoom(tables[r.tableId].tenantId), GuestRoom(tables[r.tableId].tenantId)}
                /\ \A c \in Conns :
                      IF /\ conn[c].state = "open"
                         /\ \/ TenantRoom(tables[r.tableId].tenantId) \in rooms[c]
                            \/ GuestRoom(tables[r.tableId].tenantId) \in rooms[c]
                      THEN { Received(c)[i].name : i \in DOMAIN Received(c) }
                              = {"table_paid", "table_status_changed"}
                      ELSE Received(c) = <<>> ]_vars

\* The table of T2, LOCKED before, has been marked paid, and a socket that is
\* only in guest:T2 has received table_paid.
C7_Witness ==
    /\ lastResponse.op = "markTableAsPaid" /\ lastResponse.code = 200
    /\ tables["tC"].status = "LOCKED"
    /\ \E c \in Conns :
          /\ rooms[c] = {GuestRoom("T2")}
          /\ \E i \in DOMAIN inbox[c] : inbox[c][i].name = "table_paid" /\ inbox[c][i].tableId = "tC"

\* C9: join_room by a socket authenticated as T1 with a tenantId other than
\* T1 changes no room membership and no connection, and an error event goes
\* to that socket and to no other.
C9_CrossTenantJoinRejected ==
    [][ \A c \in Conns, t \in TenantIdInputs :
          (join_room(c, t) /\ conn[c].authenticated /\ conn[c].tenantId # t)
             => /\ rooms' = rooms
                /\ conn' = conn
                /\ inbox'[c] = Append(inbox[c], ErrorEvent("Cannot join another tenant's room"))
                /\ \A d \in Conns \ {c} : inbox'[d] = inbox[d] ]_vars

\* An authenticated socket has been refused another tenant's room: it is
\* still connected, in no room, and holds the error event.
C9_Witness ==
    \E c \in Conns :
       /\ conn[c].state = "open" /\ conn[c].authenticated
       /\ rooms[c] = {}
       /\ inbox[c] = <<ErrorEvent("Cannot join another tenant's room")>>

\* C10: join_guest_room adds the socket to guest:<tenantId> exactly when
\* tenantId is a tenant; otherwise no room changes and the socket, if still
\* connected, receives an error event.
C10_GuestRoomJoin ==
    [][ \A r \in inflight : join_guest_room_resume(r)
          => IF r.tenantId \in Tenants
             THEN /\ rooms' = [rooms EXCEPT ![r.conn] = @ \cup {GuestRoom(r.tenantId)}]
                  /\ inbox' = inbox
             ELSE /\ rooms' = rooms
                  /\ inbox' = [inbox EXCEPT ![r.conn] =
                        IF conn[r.conn].state = "open"
                        THEN Append(@, ErrorEvent("Invalid tenant")) ELSE @] ]_vars

\* A guest socket has been refused the guest room of an unknown tenant while
\* an authenticated socket sits in the guest room of another tenant.
C10_Witness ==
    \E c \in Conns, d \in Conns :
       /\ ~conn[c].authenticated /\ conn[c].state = "open"
       /\ rooms[c] = {}
       /\ inbox[c] = <<ErrorEvent("Invalid tenant")>>
       /\ conn[d].authenticated
       /\ \E t \in Tenants : t # conn[d].tenantId /\ GuestRoom(t) \in rooms[d]

\* C11: a handshake with no token admits the socket as a guest; a handshake
\* with a token that fails verification, or that names no tenant, rejects the
\* socket, and a rejected socket stays rejected, is in no room and has
\* received no event, whatever the server emits afterwards.
C11_HandshakeRejects ==
    [][ /\ \A c \in Conns : \A token \in ConnTokens(c) :
              socketAuthMiddleware(c, token)
                 => IF token = ""
                    THEN /\ conn'[c].state = "open"
                         /\ conn'[c].isGuest /\ ~conn'[c].authenticated
                    ELSE IF verifyToken(token) \in Tenants
                    THEN /\ conn'[c].state = "open"
                         /\ conn'[c].authenticated /\ conn'[c].tenantId = verifyToken(token)
                    ELSE /\ conn'[c].state = "rejected"
                         /\ rooms'[c] = {} /\ inbox'[c] = <<>>
        /\ \A c \in Conns :
              conn[c].state = "rejected"
                 => /\ conn'[c].state = "rejected"
                    /\ rooms'[c] = {} /\ inbox'[c] = <<>> ]_vars

\* A socket was rejected at its handshake, and afterwards a broadcast reached
\* the other socket: the rejected one is in no room and has received nothing.
C11_Witness ==
    /\ conn["c1"].state = "rejected"
    /\ rooms["c1"] = {} /\ inbox["c1"] = <<>>
    /\ \E i \in DOMAIN emitted : emitted[i].room = AllSockets
    /\ inbox["c2"] # <<>>

\* C12: updateOrderStatus by an authenticated tenant, with a valid status, on
\* an order of another tenant answers 404 "Order not found", the very answer
\* it gives for an id that matches no order; no order changes, nothing is
\* emitted and no continuation is left to emit later.
C12_ForeignOrderNotFound ==
    [][ \A token \in Tokens, id \in OrderIdInputs, status \in OrderStatuses :
          ( /\ updateOrderStatus(token, id, status)
            /\ authenticateTenant(token).code = 200
            /\ \/ id \notin DOMAIN orders
               \/ orders[id].tenantId # authenticateTenant(token).tenant )
             => /\ lastResponse' = Response(nOps', "updateOrderStatus", 404, "Order not found")
                /\ orders' = orders
                /\ emitted' = emitted /\ inbox' = inbox
                /\ inflight' = inflight ]_vars

\* Tenant T2 has asked to change the status of T1's order 1 and was answered
\* 404; the order is as it was and nothing was emitted.
C12_Witness ==
    /\ lastRequest = Request("updateOrderStatus", "jwt:T2", 1, "")
    /\ lastResponse = Response(nOps, "updateOrderStatus", 404, "Order not found")
    /\ orders[1] = PersistedOrder("PENDING")
    /\ emitted = <<>>

\* The table is missing or belongs to another tenant than the caller.
NotOwnTable(token, t) ==
    \/ t \notin DOMAIN tables
    \/ tables[t].tenantId # authenticateTenant(token).tenant

\* C13: updateTableStatus (with a valid status) and markTableAsPaid by an
\* authenticated tenant on a table of another tenant answer 404 "Table not
\* found", the very answer they give for an id that matches no table; no
\* table changes, nothing is emitted and no continuation is left to emit
\* table_status_changed or table_paid later.
C13_ForeignTableNotFound ==
    [][ \A token \in Tokens, t \in TableIdInputs :
          /\ \A status \in TableStatuses :
                ( /\ updateTableStatus(token, t, status)
                  /\ authenticateTenant(token).code = 200
                  /\ NotOwnTable(token, t) )
                   => /\ lastResponse' = Response(nOps', "updateTableStatus", 404, "Table not found")
                      /\ tables' = tables
                      /\ emitted' = emitted /\ inbox' = inbox
                      /\ inflight' = inflight
          /\ ( /\ markTableAsPaid(token, t)
               /\ authenticateTenant(token).code = 200
               /\ NotOwnTable(token, t) )
                => /\ lastResponse' = Response(nOps', "markTableAsPaid", 404, "Table not found")
                   /\ tables' = tables
                   /\ emitted' = emitted /\ inbox' = inbox
                   /\ inflight' = inflight ]_vars

\* Tenant T2 has asked to mark T1's table paid and was answered 404; the table
\* is still ACTIVE and nothing was emitted.
C13_Witness ==
    /\ lastRequest = Request("markTableAsPaid", "jwt:T2", 0, "tA")
    /\ lastResponse = Response(nOps, "markTableAsPaid", 404, "Table not found")
    /\ tables["tA"].status = "ACTIVE"
    /\ emitted = <<>>

\* C14: updateTableStatus by the owner with a status of {ACTIVE, LOCKED}
\* writes that status whatever the table's status was, also when it is the
\* same, touches no other table, and then emits table_status_changed with the
\* new status to room T and to room guest:T and answers 200; with any other
\* status it answers 400, writes nothing and emits nothing.
C14_SetTableStatus ==
    [][ /\ \A token \in Tokens, t \in TableIds, status \in TableStatuses \cup {"BOGUS"} :
              ( /\ updateTableStatus(token, t, status)
                /\ authenticateTenant(token).code = 200
                /\ tables[t].tenantId = authenticateTenant(token).tenant )
                 => IF status \in {"ACTIVE", "LOCKED"}
                    THEN /\ tables' = [tables EXCEPT ![t].status = status]
                         /\ \E r \in inflight' \ inflight :
                               /\ r.op = "updateTableStatus" /\ r.tableId = t
                               /\ r.status = status /\ r.tenantId = tables[t].tenantId
                    ELSE /\ lastResponse'.rid = nOps' /\ lastResponse'.code = 400
                         /\ tables' = tables
                         /\ emitted' = emitted /\ inflight' = inflight
        /\ \A r \in inflight : updateTableStatus_emit(r)
              => /\ { <<Emitted[i].ev.name, Emitted[i].ev.tableId, Emitted[i].ev.status, Emitted[i].room>> :
                         i \in DOMAIN Emitted }
                       = { <<"table_status_changed", r.tableId, r.status, TenantRoom(r.tenantId)>>,
                           <<"table_status_changed", r.tableId, r.status, GuestRoom(r.tenantId)>> }
                 /\ lastResponse' = Response(r.rid, "updateTableStatus", 200, "") ]_vars

\* The first request set T1's table, ACTIVE from the start, to ACTIVE again:
\* it succeeded and table_status_changed went to guest:T1.
C14_Witness ==
    /\ lastResponse = Response(1, "updateTableStatus", 200, "")
    /\ lastRequest = Request("updateTableStatus", "jwt:T1", 0, "tA")
    /\ tables["tA"].status = "ACTIVE"
    /\ \E i \in DOMAIN emitted :
          /\ emitted[i].room = GuestRoom("T1")
          /\ emitted[i].ev.name = "table_status_changed"
          /\ emitted[i].ev.status = "ACTIVE"

\* The order item written for request item it: name and price of the product
\* row, quantity of the request.
Snapshot(it) ==
    [productName |-> products[it.productId].name,
     quantity |-> it.quantity,
     price |-> products[it.productId].price]

RECURSIVE ItemsValue(_)
ItemsValue(its) ==
    IF its = <<>> THEN 0
    ELSE Head(its).price * Head(its).quantity + ItemsValue(Tail(its))

\* C16: the total of every order equals the sum over its items of unit price
\* times quantity.
C16_TotalIsSumOfItems ==
    \A id \in DOMAIN orders : orders[id].total = ItemsValue(orders[id].items)

\* C17: a successful addItemsToOrder on an order of tenant T emits
\* order_updated to room T and to room guest:T, and a connected socket that
\* is only in guest:T receives it.
C17_AddItemsReachesGuests ==
    [][ \A r \in inflight : addItemsToOrder_emit(r)
          => /\ { <<Emitted[i].ev.name, Emitted[i].room>> : i \in DOMAIN Emitted }
                   = { <<"order_updated", TenantRoom(r.tenantId)>>,
                       <<"order_updated", GuestRoom(r.tenantId)>> }
             /\ \A c \in Conns :
                   (conn[c].state = "open" /\ rooms[c] = {GuestRoom(r.tenantId)})
                      => \E i \in DOMAIN Received(c) :
                            /\ Received(c)[i].name = "order_updated"
                            /\ Received(c)[i].id = r.id ]_vars

PrivilegedOps == {"updateOrderStatus", "updateTableStatus", "markTableAsPaid"}

\* C19: a request for updateOrderStatus, updateTableStatus or markTableAsPaid
\* whose credential is not a token the verifier accepts for an existing
\* tenant (no credential, a token that fails verification, or the bare id of
\* a tenant) is answered 401, changes no order and no table, emits nothing
\* and leaves nothing to emit later.
C19_PrivilegedNeedsToken ==
    [][ ( /\ nOps' = nOps + 1
          /\ lastRequest'.op \in PrivilegedOps
          /\ verifyToken(lastRequest'.caller) \notin Tenants )
           => /\ lastResponse'.rid = nOps'
              /\ lastResponse'.code = 401
              /\ orders' = orders /\ tables' = tables
              /\ emitted' = emitted /\ inbox' = inbox
              /\ inflight' = inflight ]_vars

\* Status codes of a validation error, as the handlers use them.
ValidationCodes == {400}
\* Status code of an internal failure.
InternalFailure == 500

\* C20: a createOrder for an existing tenant that names a product which is
\* missing, of another tenant or unavailable is answered with a validation
\* error, not with the answer of an internal failure.
C20_BadProductIsValidationError ==
    [][ \A t \in Tenants, n \in TableNameInputs, items \in ItemListInputs, total \in TotalInputs :
          ( /\ createOrder(t, n, items, total)
            /\ Len(items) > 0 /\ total # 0
            /\ \E i \in DOMAIN items : ~Orderable(items[i].productId, t) )
             => /\ lastResponse'.rid = nOps'
                /\ lastResponse'.code \in ValidationCodes
                /\ lastResponse'.code # InternalFailure
                /\ lastResponse'.error # "Failed to create order" ]_vars


SameRow(a, b) ==
    /\ a.op \in {"createOrder", "addItemsToOrder", "updateOrderStatus",
                 "updateTableStatus", "markTableAsPaid"}
    /\ b.op \in {"createOrder", "addItemsToOrder", "updateOrderStatus",
                 "updateTableStatus", "markTableAsPaid"}
    /\ a.id = b.id
    /\ a.tableId = b.tableId

\* C22: when the writes of two operations on the same order or the same
\* table commit in the order A then B, no event of B is published unless an
\* event of A was published before it.
C22_EventsInCommitOrder ==
    \A i \in DOMAIN committed : \A j \in DOMAIN committed :
       (i < j /\ SameRow(committed[i], committed[j]))
          => \A m \in DOMAIN emitted :
                emitted[m].ev.rid = committed[j].rid
                   => \E n \in 1..(m - 1) : emitted[n].ev.rid = committed[i].rid


\* C23: an event is published only by a request whose write the store has
\* already committed, and a request answered with an error (validation,
\* ownership, state check, aborted transaction) publishes no event, neither
\* in the step that answers nor before it.
C23_EmitOnlyAfterCommit ==
    [][ /\ \A i \in DOMAIN Emitted :
              \E j \in DOMAIN committed : committed[j].rid = Emitted[i].ev.rid
        /\ (lastResponse' # lastResponse /\ lastResponse'.code >= 400)
              => /\ Emitted = <<>>
                 /\ \A m \in DOMAIN emitted : emitted[m].ev.rid # lastResponse'.rid
                 /\ \A j \in DOMAIN committed' : committed'[j].rid # lastResponse'.rid ]_vars

\* An order's event was published after its commit, and a later createOrder
\* naming an unknown product was aborted with 500 and published nothing.
C23_Witness ==
    /\ Len(emitted) = 1
    /\ \E j \in DOMAIN committed : committed[j].rid = emitted[1].ev.rid
    /\ lastResponse.op = "createOrder" /\ lastResponse.code = 500
    /\ lastResponse.rid = 2


\* C24: in every interleaving of addItemsToOrder and updateOrderStatus, the
\* items and the total of an order change only in a step in which the order
\* is PENDING: no CONFIRMED, DONE or CANCELLED order gains items or has its
\* total changed.
C24_ItemsOnlyWhilePending ==
    [][ \A id \in DOMAIN orders :
           (orders'[id].items # orders[id].items \/ orders'[id].total # orders[id].total)
              => orders[id].status = "PENDING" ]_vars


\* C25: two addItemsToOrder requests on the same PENDING order that both
\* succeed leave the total at the initial total plus both additionalTotal
\* values and the item list with the items of both: each commit adds its
\* additionalTotal to the total the order has at that commit and appends its
\* items to the items the order has at that commit.
C25_ConcurrentAddItemsAddUp ==
    [][ \A r \in inflight :
           addItemsToOrder_tx(r)
              => /\ orders'[r.id].total = orders[r.id].total + r.amount
                 /\ orders'[r.id].items = orders[r.id].items \o r.items ]_vars


\* C26: for one markTableAsPaid on a table of tenant T, every open connection
\* in room T or in room guest:T receives table_paid and table_status_changed,
\* and every table_paid of the request before every table_status_changed.
C26_PaidBeforeStatusChanged ==
    [][ \A r \in inflight :
           markTableAsPaid_emit(r)
              => \A c \in Conns :
                    (conn[c].state = "open"
                        /\ rooms[c] \cap {TenantRoom(r.tenantId), GuestRoom(r.tenantId)} # {})
                       => /\ \E i \in DOMAIN Received(c) : Received(c)[i].name = "table_paid"
                          /\ \E j \in DOMAIN Received(c) : Received(c)[j].name = "table_status_changed"
                          /\ \A i \in DOMAIN Received(c) : \A j \in DOMAIN Received(c) :
                                (Received(c)[i].name = "table_paid"
                                    /\ Received(c)[j].name = "table_status_changed") => i < j ]_vars

\* The dashboard c1 in room T1 and the guest c2 in room guest:T1 have both
\* received table_paid and then table_status_changed for table tA.
C26_Witness ==
    /\ rooms["c1"] = {TenantRoom("T1")} /\ rooms["c2"] = {GuestRoom("T1")}
    /\ \A c \in Conns :
          /\ Len(inbox[c]) = 2
          /\ inbox[c][1].name = "table_paid" /\ inbox[c][1].tableId = "tA"
          /\ inbox[c][2].name = "table_status_changed" /\ inbox[c][2].status = "LOCKED"


\* Request ids of one behaviour.
RequestIds == 1..(MaxOps + MaxStoreOps)

\* C27: with a fair event loop and no crash, every committed write of
\* createOrder, addItemsToOrder, updateOrderStatus, updateTableStatus or
\* markTableAsPaid is eventually followed by the publication of its event,
\* and a published event is delivered to every open connection that is in
\* the room it is published to at that moment.
C27_CommittedIsPublished ==
    /\ \A rid \in RequestIds :
          (\E j \in DOMAIN committed :
              /\ committed[j].rid = rid
              /\ committed[j].op \in {"createOrder", "addItemsToOrder", "updateOrderStatus",
                                      "updateTableStatus", "markTableAsPaid"})
             ~> (\E m \in DOMAIN emitted : emitted[m].ev.rid = rid)
    /\ [][ \A i \in DOMAIN Emitted : \A c \in Conns :
              (conn[c].state = "open"
                  /\ (Emitted[i].room = AllSockets \/ Emitted[i].room \in rooms[c]))
                 => \E k \in DOMAIN Received(c) : Received(c)[k] = Emitted[i].ev ]_vars

\* The write of createOrder was committed, new_order was published to room
\* T1 and the dashboard c1, then a member of T1, has received it, while the
\* guest c2 has received nothing.
C27_Witness ==
    /\ \E j \in DOMAIN committed : committed[j].op = "createOrder" /\ committed[j].rid = 1
    /\ Len(emitted) = 1 /\ emitted[1].room = TenantRoom("T1") /\ emitted[1].ev.rid = 1
    /\ TenantRoom("T1") \in rooms["c1"]
    /\ inbox["c1"] = <<emitted[1].ev>>
    /\ conn["c2"].state = "open" /\ inbox["c2"] = <<>>


C29_TableEventAtMostOnce ==
    \A c \in Conns : \A i \in DOMAIN inbox[c] : \A j \in DOMAIN inbox[c] :
       (/\ inbox[c][i].name \in {"table_status_changed", "table_paid"}
        /\ inbox[c][j].name = inbox[c][i].name
        /\ inbox[c][j].rid = inbox[c][i].rid)
          => i = j


\* C30: updateTableStatus and markTableAsPaid, with their emits, change
\* nothing in the store but the status of the table they address: every
\* other table, the name and owner of the addressed table, and every
\* order's status, items and total stay as they were.
C30_TableOpsFrame ==
    [][ /\ \A token \in Tokens, t \in TableIdInputs :
              (\/ markTableAsPaid(token, t)
               \/ \E status \in TableStatuses \cup {"BOGUS"} : updateTableStatus(token, t, status))
                 => /\ orders' = orders
                    /\ products' = products
                    /\ DOMAIN tables' = DOMAIN tables
                    /\ \A u \in DOMAIN tables :
                          /\ u # t => tables'[u] = tables[u]
                          /\ tables'[u] = [tables[u] EXCEPT !.status = tables'[u].status]
        /\ \A r \in inflight :
              (updateTableStatus_emit(r) \/ markTableAsPaid_emit(r)) => store' = store ]_vars

\* T2 set its table tC to ACTIVE and T1 marked its table tA as paid: tA is
\* LOCKED, tC is still ACTIVE and order 1 is as it was.
C30_Witness ==
    /\ tables["tA"].status = "LOCKED" /\ tables["tC"].status = "ACTIVE"
    /\ lastResponse.op = "markTableAsPaid" /\ lastResponse.code = 200
    /\ Len(committed) = 2 /\ committed[2].tableId = "tA"
    /\ orders = <<PersistedOrder("PENDING")>>
====
